---- MODULE Spec2Model ----
(***************************************************************************)
(* The notebook Multi-Class-Classification.ipynb as a state machine: one   *)
(* action per statement (or library call) of its code cells, in the order  *)
(* the cells run.  Library calls (scikit-learn, torch) are modelled by     *)
(* what the call made in the notebook does with the arguments given there. *)
(* Real numbers are integers on a grid: logits in units of ln 2, so that   *)
(* exp of a logit is an exact power of two.                                *)
(***************************************************************************)
EXTENDS Integers, Sequences, FiniteSets, TLC

VARIABLES
  pc,            \* the statement that runs next
  num_samples,   \* NUM_SAMPLES as the data cell reads it
  rng,           \* what the generators seeded with RANDOM_SEED draw in this run
  X_blob, y_blob,
  X_blob_train, X_blob_test, y_blob_train, y_blob_test,
  train_idx, test_idx,   \* the index arrays train_test_split cuts with
  n_train, n_test,       \* the sizes train_test_split computes
  helper_file,   \* helper_functions.py on disk: whether it is a file, and its bytes
  downloads,     \* requests.get calls made
  params,        \* model_4's parameters: per layer a weight matrix and a bias
  grad,          \* the parameters' .grad buffers
  training,      \* model_4.training
  grad_enabled,  \* FALSE inside torch.inference_mode()
  optimizer,
  epochs, epoch,
  y_logits, y_pred, loss,
  test_logits, test_pred, test_loss,
  out,           \* the lines the training loop printed
  step_grad,     \* the gradient loss.backward() computed last
  n_updates,     \* optimizer.step() calls that have run
  y_pred_probs, y_preds,
  cell_out,      \* the value a cell displayed last
  plots,
  tm_acc, sk_acc

dataVars == <<num_samples, rng, X_blob, y_blob, X_blob_train, X_blob_test,
              y_blob_train, y_blob_test, train_idx, test_idx>>
sizeVars == <<n_train, n_test>>
fsVars == <<helper_file, downloads>>
modelVars == <<params, grad, training, grad_enabled, optimizer>>
loopVars == <<epochs, epoch, y_logits, y_pred, loss, test_logits, test_pred,
              test_loss, out, step_grad, n_updates>>
evalVars == <<y_pred_probs, y_preds, cell_out, plots, tm_acc, sk_acc>>
restVars == <<fsVars, modelVars, loopVars, evalVars>>
vars == <<pc, dataVars, sizeVars, restVars>>

(***************************************************************************)
(* Hyperparameters of the data cell.                                       *)
(***************************************************************************)
NUM_SAMPLES == 4000
NUM_CLASSES == 10
NUM_FEATURES == 2
NUM_NODES == 4
\* LEARNING_RATE = 0.05 as the fraction LR_NUM / LR_DEN
LR_NUM == 5
LR_DEN == 100
\* the loop reports when epoch % REPORT_EVERY = 0
REPORT_EVERY == 100
\* BlobModel stacks NUM_LAYERS nn.Linear layers
NUM_LAYERS == 5
\* torch.float: values in [1/2, 1] lie 2^-FRAC_BITS apart
FRAC_BITS == 24
\* test_size = 0.2 as the fraction TEST_NUM / TEST_DEN
TEST_NUM == 2
TEST_DEN == 10

(***************************************************************************)
(* Bounds of the model.                                                    *)
(***************************************************************************)
\* the largest sample count whose every generator outcome is enumerated
MaxSamples == 3
\* the largest sample count (besides NUM_SAMPLES) whose split sizes are computed
MaxCount == 60
\* float64 grid points per float32 grid point (2^29 in the hardware formats)
DoublePerFloat == 2
\* NUM_EPOCHS in hundreds (1500 in the notebook)
EpochHundreds == 2
\* the sample count of the runs that train
PipelineSamples == 6
\* no parameter entry leaves -ParamCap..ParamCap
ParamCap == 2
\* the largest logit of the logit tensors enumerated for the evaluation cells
LogitSpread == 2

\* bytes of helper_functions.py told apart
MaxBytes == 3

\* test samples whose labels are compared
MaxTest == 3

\* feature values of the inputs the forward pass is tried on
InputSpan == 1

NUM_EPOCHS == EpochHundreds * REPORT_EVERY

\* helper_functions.py: not on disk, or the bytes it holds
Absent == [is_file |-> FALSE, content |-> <<>>]
Contents == UNION {[1..n -> {0, 1}] : n \in 0..MaxBytes}
\* a file found on disk before the run, and what the server can send
LocalFile == [is_file |-> TRUE, content |-> <<1>>]
PipelineContents == {<<>>, <<0>>}

\* a name bound to nothing yet
None == [dtype |-> "none", data |-> <<>>]

Range(s) == {s[i] : i \in DOMAIN s}
Perms(n) == {p \in [1..n -> 1..n] : \A i, j \in 1..n : p[i] = p[j] => i = j}

(***************************************************************************)
(* make_blobs(n_samples, n_features, centers=K, random_state): the samples *)
(* are dealt to the K centers n \div K each, the first n % K centers one   *)
(* more; sample i of the center-ordered list is labelled with its center;  *)
(* then features and labels are shuffled together.                         *)
(***************************************************************************)
SamplesPerCenter(n, k, c) == (n \div k) + (IF c < n % k THEN 1 ELSE 0)

\* the centers numbered from 1
RECURSIVE MutCenterLabels(_, _, _)
MutCenterLabels(n, k, c) ==
  IF c >= k THEN <<>>
  ELSE [i \in 1..SamplesPerCenter(n, k, c) |-> c + 1] \o MutCenterLabels(n, k, c + 1)

RECURSIVE CenterLabels(_, _, _)
CenterLabels(n, k, c) ==
  IF c >= k THEN <<>>
  ELSE [i \in 1..SamplesPerCenter(n, k, c) |-> c] \o CenterLabels(n, k, c + 1)

\* raw float64 feature vectors a sample can be drawn at
RawVecs == {<<-3, 2>>, <<1, 3>>}

make_blobs(n, k, r) ==
  LET ordered == CenterLabels(n, k, 0)
  IN [X |-> [dtype |-> "float64", data |-> [i \in 1..n |-> r.feat[r.order[i]]]],
      y |-> [dtype |-> "int64", data |-> [i \in 1..n |-> ordered[r.order[i]]]]]

\* every outcome the seeded generators can have for n samples
RngOutcomes(n) == [feat : [1..n -> RawVecs], order : Perms(n), split : Perms(n)]

\* a few outcomes for a sample count too large to enumerate them all
SomePerms(n) ==
  {[i \in 1..n |-> i], [i \in 1..n |-> n + 1 - i], [i \in 1..n |-> (i % n) + 1]}
SomeFeats(n) ==
  {[i \in 1..n |-> IF i % m = 0 THEN <<-3, 2>> ELSE <<1, 3>>] : m \in {2, 3}}
SomeOutcomes(n) == [feat : SomeFeats(n), order : SomePerms(n), split : SomePerms(n)]

\* the outcome of the runs that train
PipelineOutcomes(n) ==
  {[feat |-> [i \in 1..n |-> IF i % 2 = 0 THEN <<-3, 2>> ELSE <<1, 3>>],
    order |-> [i \in 1..n |-> n + 1 - i],
    split |-> [i \in 1..n |-> (i % n) + 1]]}

(***************************************************************************)
(* torch.from_numpy(..).type(torch.float): float64 to float32, round to    *)
(* nearest, ties to even.  .type(torch.LongTensor): int64 to int64.        *)
(***************************************************************************)
RoundNearestEven(v, q) ==
  LET lo == v \div q
      rem == v - q * lo
  IN IF 2 * rem < q THEN lo
     ELSE IF 2 * rem > q THEN lo + 1
     ELSE IF lo % 2 = 0 THEN lo ELSE lo + 1

ToFloat(a) ==
  [dtype |-> "float32",
   data |-> [i \in DOMAIN a.data |->
              [j \in DOMAIN a.data[i] |-> RoundNearestEven(a.data[i][j], DoublePerFloat)]]]

ToLong(a) == [dtype |-> "long", data |-> [i \in DOMAIN a.data |-> a.data[i]]]

(***************************************************************************)
(* train_test_split(X, y, test_size=0.2, random_state): n_test is the      *)
(* ceiling of test_size * n, n_train the rest; one permutation of the      *)
(* indices is drawn, its first n_test entries index the test subset, the   *)
(* next n_train the train subset, and both arrays are cut with the same    *)
(* index arrays.                                                           *)
(***************************************************************************)
CeilDiv(a, b) == (a + b - 1) \div b

\* the two sizes the wrong way round
MutNTest(n) == n - CeilDiv(n * TEST_NUM, TEST_DEN)
NTest(n) == CeilDiv(n * TEST_NUM, TEST_DEN)

NTrain(n) == n - NTest(n)

TestIndices(p, n) == [i \in 1..NTest(n) |-> p[i]]

\* the train slice starting one entry early
MutTrainIndices(p, n) == [i \in 1..NTrain(n) |-> p[NTest(n) + i - 1]]
TrainIndices(p, n) == [i \in 1..NTrain(n) |-> p[NTest(n) + i]]

Take(a, idx) == [dtype |-> a.dtype, data |-> [i \in DOMAIN idx |-> a.data[idx[i]]]]

(***************************************************************************)
(* BlobModel(input_features, output_features, hidden_units): nn.Sequential *)
(* of five nn.Linear layers, no activation between them.                   *)
(***************************************************************************)
LayerShapes(input_features, output_features, hidden_units) ==
  <<[in |-> input_features, out |-> hidden_units],
    [in |-> hidden_units, out |-> hidden_units],
    [in |-> hidden_units, out |-> hidden_units],
    [in |-> hidden_units, out |-> hidden_units],
    [in |-> hidden_units, out |-> output_features]>>

\* BlobModel built with the default hidden_units=8
MutModel4Shapes == LayerShapes(NUM_FEATURES, NUM_CLASSES, 8)
\* model_4 = BlobModel(NUM_FEATURES, NUM_CLASSES, hidden_units = NUM_NODES)
Model4Shapes == LayerShapes(NUM_FEATURES, NUM_CLASSES, NUM_NODES)

\* the draws nn.Linear's initialisation can make (torch's generator is not
\* seeded before the model is built)
InitDraws == {1, 2}
InitParams(d) ==
  [l \in DOMAIN Model4Shapes |->
    [weight |-> [o \in 1..Model4Shapes[l].out |->
                  [i \in 1..Model4Shapes[l].in |-> ((d + l + 2 * o + i) % 3) - 1]],
     bias |-> [o \in 1..Model4Shapes[l].out |-> ((d * l + o) % 3) - 1]]]

\* float32 has values that are no number; arithmetic on one gives one, and no
\* operation raises on it.  NaN stands for them, above every number, which
\* is where max and argmax place it.
NaN == 2 ^ 30
\* float32 has numbers nearer to 0 than 2^-FRAC_BITS.  Tiny stands for a
\* positive one: above 0 and below ln 2 to every comparison, and alike 0 to
\* exp, whose result for -Tiny rounds to 1.
Tiny == 2 ^ 29
\* the place of a value in the order of the floats
Rank(x) == IF x = NaN THEN NaN ELSE IF x = Tiny THEN 1 ELSE 2 * x
\* the multiple of ln 2 whose exp is the float32 exp of the value
Rounded(x) == IF x = Tiny THEN 0 ELSE x
FAdd(a, b) == IF a = NaN \/ b = NaN THEN NaN ELSE a + b
FMul(a, b) == IF a = NaN \/ b = NaN THEN NaN ELSE a * b

RECURSIVE DotFrom(_, _, _)
DotFrom(w, v, i) ==
  IF i > Len(w) THEN 0 ELSE FAdd(FMul(w[i], v[i]), DotFrom(w, v, i + 1))

\* the layer followed by the nn.ReLU() that the stack holds as a comment
MutLinear(layer, v) ==
  [o \in DOMAIN layer.weight |->
    LET z == FAdd(DotFrom(layer.weight[o], v, 1), layer.bias[o])
    IN IF z < 0 THEN 0 ELSE z] \o <<>>
\* nn.Linear: x W^T + b (the concatenation with <<>> leaves the value as it is)
Linear(layer, v) ==
  [o \in DOMAIN layer.weight |-> FAdd(DotFrom(layer.weight[o], v, 1), layer.bias[o])] \o <<>>

RECURSIVE Sequential(_, _, _)
Sequential(ps, v, l) == IF l > Len(ps) THEN v ELSE Sequential(ps, Linear(ps[l], v), l + 1)

\* BlobModel.forward on a batch; the result carries a graph when gradients
\* are tracked; updates tells which parameters it was computed from: those
\* that so many optimizer steps had produced
Forward(ps, X, tracked, updates) ==
  [dtype |-> "float32",
   data |-> [i \in DOMAIN X.data |-> Sequential(ps, X.data[i], 1)],
   requires_grad |-> tracked,
   updates |-> updates]

(***************************************************************************)
(* torch.softmax(t, dim) and argmax(dim) on a samples x classes tensor.    *)
(* A logit is a multiple of ln 2, so exp(z - max) is the power of two      *)
(* 2^-(max - z), held with FRAC_BITS fraction bits; smaller values are 0.  *)
(***************************************************************************)
RECURSIVE SumFrom(_, _)
SumFrom(v, i) == IF i > Len(v) THEN 0 ELSE FAdd(v[i], SumFrom(v, i + 1))

RECURSIVE MaxFrom(_, _)
MaxFrom(v, i) ==
  IF i = Len(v) THEN v[i]
  ELSE LET m == MaxFrom(v, i + 1) IN IF Rank(v[i]) > Rank(m) THEN v[i] ELSE m

\* a * 2^k / s rounded to nearest (ties to even), for 0 <= a <= s
RECURSIVE ShiftDiv(_, _, _, _)
ShiftDiv(q, r, s, k) ==
  IF k = 0
  THEN IF 2 * r > s \/ (2 * r = s /\ q % 2 = 1) THEN q + 1 ELSE q
  ELSE IF 2 * r >= s THEN ShiftDiv(2 * q + 1, 2 * r - s, s, k - 1)
       ELSE ShiftDiv(2 * q, 2 * r, s, k - 1)

\* exp(z - max) of every entry, as a multiple of 2^-FRAC_BITS
ExpShifted(z, m) ==
  [i \in DOMAIN z |->
    LET d == Rounded(m) - Rounded(z[i])
    IN IF d <= FRAC_BITS THEN 2 ^ (FRAC_BITS - d) ELSE 0] \o <<>>

Normalized(w, s) ==
  [i \in DOMAIN w |-> ShiftDiv(w[i] \div s, w[i] % s, s, FRAC_BITS)] \o <<>>

SoftmaxVec(z) ==
  IF NaN \in Range(z) THEN [i \in DOMAIN z |-> NaN]
  ELSE LET w == ExpShifted(z, MaxFrom(z, 1)) IN Normalized(w, SumFrom(w, 1))

Transpose(rows) ==
  [j \in DOMAIN rows[1] |-> [i \in DOMAIN rows |-> rows[i][j]]]

Softmax(t, dim) ==
  [dtype |-> "float32",
   data |-> IF dim = 1 THEN [i \in DOMAIN t.data |-> SoftmaxVec(t.data[i])]
            ELSE LET cols == Transpose(t.data)
                 IN Transpose([j \in DOMAIN cols |-> SoftmaxVec(cols[j])]),
   requires_grad |-> t.requires_grad,
   updates |-> t.updates]

\* the scan keeping the last of several maximal entries
RECURSIVE MutArgmaxFrom(_, _, _)
MutArgmaxFrom(v, i, best) ==
  IF i > Len(v) THEN best - 1
  ELSE IF Rank(v[i]) >= Rank(v[best]) THEN MutArgmaxFrom(v, i + 1, i)
  ELSE MutArgmaxFrom(v, i + 1, best)

\* the index, counted from 0, of the first maximal entry
RECURSIVE ArgmaxFrom(_, _, _)
ArgmaxFrom(v, i, best) ==
  IF i > Len(v) THEN best - 1
  ELSE IF Rank(v[i]) > Rank(v[best]) THEN ArgmaxFrom(v, i + 1, i)
  ELSE ArgmaxFrom(v, i + 1, best)

ArgmaxVec(v) == ArgmaxFrom(v, 1, 1)

Argmax(t, dim) ==
  IF dim = 1 THEN [i \in DOMAIN t.data |-> ArgmaxVec(t.data[i])]
  ELSE LET cols == Transpose(t.data) IN [j \in DOMAIN cols |-> ArgmaxVec(cols[j])]

(***************************************************************************)
(* nn.CrossEntropyLoss and torch.optim.SGD.  The loss is kept as a term:   *)
(* the batch it is the loss of, how many samples, the parameters its       *)
(* logits came from.  Its gradient is whatever autograd returns, one value *)
(* of GradVals in every entry.                                             *)
(***************************************************************************)
NoGrad == <<>>
NoLoss == <<>>
NoOptimizer == <<>>

CrossEntropyLoss(logits, target, on) ==
  [on |-> on, samples |-> Len(target.data), paired |-> Len(logits.data) = Len(target.data),
   requires_grad |-> logits.requires_grad, updates |-> logits.updates,
   finite |-> \A i \in DOMAIN logits.data : NaN \notin Range(logits.data[i])]

GradVals == {-(LR_DEN \div LR_NUM), LR_DEN \div LR_NUM}

MapParams(ps, F(_, _, _, _)) ==
  [l \in DOMAIN ps |->
    [weight |-> [o \in DOMAIN ps[l].weight |->
                  [i \in DOMAIN ps[l].weight[o] |-> F(ps[l].weight[o][i], l, o, i)]],
     bias |-> [o \in DOMAIN ps[l].bias |-> F(ps[l].bias[o], l, o, 0)]]]

Entry(t, l, o, i) == IF i = 0 THEN t[l].bias[o] ELSE t[l].weight[o][i]

Entries(ps) ==
  UNION {{ps[l].bias[o] : o \in DOMAIN ps[l].bias} \cup
         UNION {Range(ps[l].weight[o]) : o \in DOMAIN ps[l].weight} : l \in DOMAIN ps}

GradFill(ps, g) == LET F(x, l, o, i) == g IN MapParams(ps, F)

\* backward() adds the gradient to what .grad holds
Accumulate(gr, ps, g) ==
  IF gr = NoGrad THEN GradFill(ps, g)
  ELSE LET F(x, l, o, i) == FAdd(x, g) IN MapParams(gr, F)

\* SGD: p <- p - lr * p.grad, for every parameter that holds a gradient
SgdStep(ps, gr, opt) ==
  IF gr = NoGrad THEN ps
  ELSE LET F(x, l, o, i) ==
             IF x = NaN \/ Entry(gr, l, o, i) = NaN THEN NaN
             ELSE x - (opt.lr_num * Entry(gr, l, o, i)) \div opt.lr_den
       IN MapParams(ps, F)

(***************************************************************************)
(* The data cell.                                                          *)
(***************************************************************************)
DataDefaults ==
  /\ X_blob = None /\ y_blob = None
  /\ X_blob_train = None /\ X_blob_test = None
  /\ y_blob_train = None /\ y_blob_test = None
  /\ train_idx = <<>> /\ test_idx = <<>>
  /\ n_train = 0 /\ n_test = 0

RestDefaults ==
  /\ downloads = 0
  /\ params = <<>> /\ grad = NoGrad
  /\ training = TRUE /\ grad_enabled = TRUE
  /\ optimizer = NoOptimizer
  /\ epochs = 0 /\ epoch = -1
  /\ y_logits = None /\ y_pred = <<>> /\ loss = NoLoss
  /\ test_logits = None /\ test_pred = <<>> /\ test_loss = NoLoss
  /\ out = <<>> /\ step_grad = NoGrad /\ n_updates = 0
  /\ y_pred_probs = None /\ y_preds = <<>>
  /\ cell_out = <<>> /\ plots = <<>>
  /\ tm_acc = <<>> /\ sk_acc = <<>>

\* the notebook before its first statement, every generator outcome possible
InitData ==
  /\ pc = "make_blobs"
  /\ \/ /\ num_samples \in 2..MaxSamples
        /\ rng \in RngOutcomes(num_samples)
     \/ /\ num_samples \in {NUM_CLASSES, NUM_CLASSES + 1}
        /\ rng \in SomeOutcomes(num_samples)
  /\ DataDefaults
  /\ helper_file = Absent
  /\ RestDefaults

MakeBlobs ==
  /\ pc = "make_blobs"
  /\ LET b == make_blobs(num_samples, NUM_CLASSES, rng)
     IN X_blob' = b.X /\ y_blob' = b.y
  /\ pc' = "to_tensors"
  /\ UNCHANGED <<num_samples, rng, X_blob_train, X_blob_test, y_blob_train,
                 y_blob_test, train_idx, test_idx, sizeVars, restVars>>

ToTensors ==
  /\ pc = "to_tensors"
  /\ X_blob' = ToFloat(X_blob)
  /\ y_blob' = ToLong(y_blob)
  /\ pc' = "split"
  /\ UNCHANGED <<num_samples, rng, X_blob_train, X_blob_test, y_blob_train,
                 y_blob_test, train_idx, test_idx, sizeVars, restVars>>

TrainTestSplit ==
  /\ pc = "split"
  /\ LET n == Len(X_blob.data)
         tr == TrainIndices(rng.split, n)
         te == TestIndices(rng.split, n)
     IN /\ n_test' = NTest(n)
        /\ n_train' = NTrain(n)
        /\ train_idx' = tr
        /\ test_idx' = te
        /\ X_blob_train' = Take(X_blob, tr)
        /\ X_blob_test' = Take(X_blob, te)
        /\ y_blob_train' = Take(y_blob, tr)
        /\ y_blob_test' = Take(y_blob, te)
  /\ pc' = "plot_data"
  /\ UNCHANGED <<num_samples, rng, X_blob, y_blob, restVars>>

PlotData ==
  /\ pc = "plot_data"
  /\ pc' = "download"
  /\ UNCHANGED <<dataVars, sizeVars, restVars>>

NextData == MakeBlobs \/ ToTensors \/ TrainTestSplit \/ PlotData

SpecData == InitData /\ [][NextData]_vars

(***************************************************************************)
(* The cell that fetches helper_functions.py, and the cells that build the *)
(* model, the loss and the optimizer.                                      *)
(***************************************************************************)
\* Path("helper_functions.py").is_file() always answering no
MutIsFile(f) == FALSE
\* Path("helper_functions.py").is_file()
is_file(f) == f.is_file

\* the cell's first statement: the file is kept when it is there; else
\* requests.get either raises or returns a response whose content (whatever
\* the server sent) is written to the file
DownloadHelper(served) ==
  /\ pc = "download"
  /\ IF is_file(helper_file)
     THEN /\ pc' = "import_helper"
          /\ UNCHANGED fsVars
     ELSE \E ok \in BOOLEAN :
            /\ downloads' = downloads + 1
            /\ IF ok
               THEN /\ helper_file' = [is_file |-> TRUE, content |-> served]
                    /\ pc' = "import_helper"
               ELSE UNCHANGED helper_file /\ pc' = "failed"
  /\ UNCHANGED <<dataVars, sizeVars, modelVars, loopVars, evalVars>>

Download == \E served \in PipelineContents : DownloadHelper(served)

\* from helper_functions import ...: raises when the file is not there or is
\* empty, and may raise on any other content that does not define the names
ImportHelper ==
  /\ pc = "import_helper"
  /\ \E importable \in BOOLEAN :
       pc' = IF is_file(helper_file) /\ helper_file.content # <<>> /\ importable
             THEN "build_model" ELSE "failed"
  /\ UNCHANGED <<dataVars, sizeVars, restVars>>

BuildModel ==
  /\ pc = "build_model"
  /\ \E d \in InitDraws : params' = InitParams(d)
  /\ training' = TRUE
  /\ pc' = "make_optimizer"
  /\ UNCHANGED <<dataVars, sizeVars, fsVars, grad, grad_enabled, optimizer,
                 loopVars, evalVars>>

MakeOptimizer ==
  /\ pc = "make_optimizer"
  /\ optimizer' = [lr_num |-> LR_NUM, lr_den |-> LR_DEN]
  /\ pc' = "forward6"
  /\ UNCHANGED <<dataVars, sizeVars, fsVars, params, grad, training, grad_enabled,
                 loopVars, evalVars>>

(***************************************************************************)
(* The forward passes made before training.                                *)
(***************************************************************************)
FirstRows(s, k) == SubSeq(s, 1, IF Len(s) < k THEN Len(s) ELSE k)

ShowForward ==
  /\ pc = "forward6"
  /\ cell_out' = FirstRows(Forward(params, X_blob_train, grad_enabled, n_updates).data, 5)
  /\ pc' = "shape7"
  /\ UNCHANGED <<dataVars, sizeVars, fsVars, modelVars, loopVars,
                 y_pred_probs, y_preds, plots, tm_acc, sk_acc>>

ShowShape ==
  /\ pc = "shape7"
  /\ cell_out' = <<Len(Forward(params, X_blob_train, grad_enabled, n_updates).data[1]), NUM_CLASSES>>
  /\ pc' = "logits8"
  /\ UNCHANGED <<dataVars, sizeVars, fsVars, modelVars, loopVars,
                 y_pred_probs, y_preds, plots, tm_acc, sk_acc>>

FirstLogits ==
  /\ pc = "logits8"
  /\ y_logits' = Forward(params, X_blob_test, grad_enabled, n_updates)
  /\ pc' = "probs8"
  /\ UNCHANGED <<dataVars, sizeVars, fsVars, modelVars, epochs, epoch, y_pred, loss,
                 test_logits, test_pred, test_loss, out, step_grad, n_updates, evalVars>>

\* the softmax taken across the samples
MutPredProbs(logits) == Softmax(logits, 0)
\* y_pred_probs = torch.softmax(y_logits, dim=1)
PredProbs(logits) == Softmax(logits, 1)

FirstProbs ==
  /\ pc = "probs8"
  /\ y_pred_probs' = PredProbs(y_logits)
  /\ pc' = "sum9"
  /\ UNCHANGED <<dataVars, sizeVars, fsVars, modelVars, loopVars,
                 y_preds, cell_out, plots, tm_acc, sk_acc>>

SumFirst ==
  /\ pc = "sum9"
  /\ cell_out' = SumFrom(y_pred_probs.data[1], 1)
  /\ pc' = "argmax10"
  /\ UNCHANGED <<dataVars, sizeVars, fsVars, modelVars, loopVars,
                 y_pred_probs, y_preds, plots, tm_acc, sk_acc>>

ArgmaxFirst ==
  /\ pc = "argmax10"
  /\ cell_out' = ArgmaxVec(y_pred_probs.data[1])
  /\ pc' = "fit"
  /\ UNCHANGED <<dataVars, sizeVars, fsVars, modelVars, loopVars,
                 y_pred_probs, y_preds, plots, tm_acc, sk_acc>>

(***************************************************************************)
(* The training and testing loop.                                          *)
(***************************************************************************)
FitSetup ==
  /\ pc = "fit"
  /\ epochs' = NUM_EPOCHS
  /\ pc' = "for"
  /\ UNCHANGED <<dataVars, sizeVars, fsVars, modelVars, epoch, y_logits, y_pred, loss,
                 test_logits, test_pred, test_loss, out, step_grad, n_updates, evalVars>>

\* range(n) running one index too far
MutInRange(e, n) == e <= n
\* e is an index of range(n)
InRange(e, n) == e < n

\* for epoch in range(epochs)
ForEpoch ==
  /\ pc = "for"
  /\ IF InRange(epoch + 1, epochs)
     THEN epoch' = epoch + 1 /\ pc' = "train_mode"
     ELSE UNCHANGED epoch /\ pc' = "predict_eval"
  /\ UNCHANGED <<dataVars, sizeVars, fsVars, modelVars, epochs, y_logits, y_pred, loss,
                 test_logits, test_pred, test_loss, out, step_grad, n_updates, evalVars>>

\* the loop without its model_4.train()
MutTrainMode ==
  /\ pc = "train_mode"
  /\ pc' = "forward"
  /\ UNCHANGED <<dataVars, sizeVars, restVars>>

TrainMode ==
  /\ pc = "train_mode"
  /\ training' = TRUE
  /\ pc' = "forward"
  /\ UNCHANGED <<dataVars, sizeVars, fsVars, params, grad, grad_enabled, optimizer,
                 loopVars, evalVars>>

\* the training step whose forward pass is over the test features
MutForwardTrain ==
  /\ pc = "forward"
  /\ y_logits' = Forward(params, X_blob_test, grad_enabled, n_updates)
  /\ pc' = "y_pred"
  /\ UNCHANGED <<dataVars, sizeVars, fsVars, modelVars, epochs, epoch, y_pred, loss,
                 test_logits, test_pred, test_loss, out, step_grad, n_updates, evalVars>>

ForwardTrain ==
  /\ pc = "forward"
  /\ y_logits' = Forward(params, X_blob_train, grad_enabled, n_updates)
  /\ pc' = "y_pred"
  /\ UNCHANGED <<dataVars, sizeVars, fsVars, modelVars, epochs, epoch, y_pred, loss,
                 test_logits, test_pred, test_loss, out, step_grad, n_updates, evalVars>>

\* torch.softmax(logits, dim=1).argmax(dim=1)
PredLabels(logits) == Argmax(Softmax(logits, 1), 1)

PredTrain ==
  /\ pc = "y_pred"
  /\ y_pred' = PredLabels(y_logits)
  /\ pc' = "loss"
  /\ UNCHANGED <<dataVars, sizeVars, fsVars, modelVars, epochs, epoch, y_logits, loss,
                 test_logits, test_pred, test_loss, out, step_grad, n_updates, evalVars>>

TrainLoss ==
  /\ pc = "loss"
  /\ loss' = CrossEntropyLoss(y_logits, y_blob_train, "train")
  /\ pc' = "zero_grad"
  /\ UNCHANGED <<dataVars, sizeVars, fsVars, modelVars, epochs, epoch, y_logits, y_pred,
                 test_logits, test_pred, test_loss, out, step_grad, n_updates, evalVars>>

\* optimizer.zero_grad() leaves the buffers as they are
MutCleared(gr) == gr
\* optimizer.zero_grad() clears every .grad buffer
Cleared(gr) == NoGrad

ZeroGrad ==
  /\ pc = "zero_grad"
  /\ grad' = Cleared(grad)
  /\ pc' = "backward"
  /\ UNCHANGED <<dataVars, sizeVars, fsVars, params, training, grad_enabled, optimizer,
                 loopVars, evalVars>>

InCap(ps) == Range(ps[NUM_LAYERS].bias) \subseteq ((-ParamCap)..ParamCap) \cup {NaN}

\* what autograd can return for this loss: a number, or no number when the
\* float32 arithmetic overflowed on the way, and always so for a loss that
\* is itself no number
Gradients(l) == IF l.finite THEN GradVals \cup {NaN} ELSE {NaN}

\* loss.backward(): the gradient of this loss is added to the buffers
Backward ==
  /\ pc = "backward"
  /\ IF loss.requires_grad
     THEN \E g \in Gradients(loss) :
            /\ InCap(SgdStep(params, Accumulate(grad, params, g), optimizer))
            /\ grad' = Accumulate(grad, params, g)
            /\ step_grad' = GradFill(params, g)
            /\ pc' = "opt_step"
     ELSE UNCHANGED <<grad, step_grad>> /\ pc' = "failed"
  /\ UNCHANGED <<dataVars, sizeVars, fsVars, params, training, grad_enabled, optimizer,
                 epochs, epoch, y_logits, y_pred, loss, test_logits, test_pred,
                 test_loss, out, n_updates, evalVars>>

OptimizerStep ==
  /\ pc = "opt_step"
  /\ params' = SgdStep(params, grad, optimizer)
  /\ n_updates' = n_updates + 1
  /\ pc' = "if_report"
  /\ UNCHANGED <<dataVars, sizeVars, fsVars, grad, training, grad_enabled, optimizer,
                 epochs, epoch, y_logits, y_pred, loss, test_logits, test_pred,
                 test_loss, out, step_grad, evalVars>>

\* the report every 10 epochs that the loop's introduction speaks of
MutReports(e) == e % 10 = 0
\* if epoch % 100 == 0
Reports(e) == e % REPORT_EVERY = 0

\* the loop that reports in the last of every 100 epochs
MutIfReport ==
  /\ pc = "if_report"
  /\ pc' = IF Reports(epoch + 1) THEN "eval_mode" ELSE "for"
  /\ UNCHANGED <<dataVars, sizeVars, restVars>>

IfReport ==
  /\ pc = "if_report"
  /\ pc' = IF Reports(epoch) THEN "eval_mode" ELSE "for"
  /\ UNCHANGED <<dataVars, sizeVars, restVars>>

EvalMode ==
  /\ pc = "eval_mode"
  /\ training' = FALSE
  /\ pc' = "enter_inference"
  /\ UNCHANGED <<dataVars, sizeVars, fsVars, params, grad, grad_enabled, optimizer,
                 loopVars, evalVars>>

\* with torch.inference_mode():
EnterInference ==
  /\ pc = "enter_inference"
  /\ grad_enabled' = FALSE
  /\ pc' = "test_forward"
  /\ UNCHANGED <<dataVars, sizeVars, fsVars, params, grad, training, optimizer,
                 loopVars, evalVars>>

TestForward ==
  /\ pc = "test_forward"
  /\ test_logits' = Forward(params, X_blob_test, grad_enabled, n_updates)
  /\ pc' = "test_pred"
  /\ UNCHANGED <<dataVars, sizeVars, fsVars, modelVars, epochs, epoch, y_logits, y_pred,
                 loss, test_pred, test_loss, out, step_grad, n_updates, evalVars>>

TestPred ==
  /\ pc = "test_pred"
  /\ test_pred' = PredLabels(test_logits)
  /\ pc' = "test_loss"
  /\ UNCHANGED <<dataVars, sizeVars, fsVars, modelVars, epochs, epoch, y_logits, y_pred,
                 loss, test_logits, test_loss, out, step_grad, n_updates, evalVars>>

\* a testing block that ends with an optimizer step of its own
MutTestLoss ==
  /\ pc = "test_loss"
  /\ test_loss' = CrossEntropyLoss(test_logits, y_blob_test, "test")
  /\ params' = SgdStep(params, grad, optimizer)
  /\ grad_enabled' = TRUE
  /\ pc' = "print"
  /\ UNCHANGED <<dataVars, sizeVars, fsVars, grad, training, optimizer,
                 epochs, epoch, y_logits, y_pred, loss, test_logits, test_pred, out,
                 step_grad, n_updates, evalVars>>

\* the last statement of the with block: leaving it restores gradient tracking
TestLoss ==
  /\ pc = "test_loss"
  /\ test_loss' = CrossEntropyLoss(test_logits, y_blob_test, "test")
  /\ grad_enabled' = TRUE
  /\ pc' = "print"
  /\ UNCHANGED <<dataVars, sizeVars, fsVars, params, grad, training, optimizer,
                 epochs, epoch, y_logits, y_pred, loss, test_logits, test_pred, out,
                 step_grad, n_updates, evalVars>>

PrintLosses ==
  /\ pc = "print"
  /\ out' = Append(out, [epoch |-> epoch, loss |-> loss, test_loss |-> test_loss])
  /\ pc' = "for"
  /\ UNCHANGED <<dataVars, sizeVars, fsVars, modelVars, epochs, epoch, y_logits, y_pred,
                 loss, test_logits, test_pred, test_loss, step_grad, n_updates, evalVars>>

(***************************************************************************)
(* The cells after training: predictions, plots, accuracy.                 *)
(***************************************************************************)
\* the prediction cell without its model_4.eval()
MutPredictEval ==
  /\ pc = "predict_eval"
  /\ pc' = "predict_enter"
  /\ UNCHANGED <<dataVars, sizeVars, restVars>>

PredictEval ==
  /\ pc = "predict_eval"
  /\ training' = FALSE
  /\ pc' = "predict_enter"
  /\ UNCHANGED <<dataVars, sizeVars, fsVars, params, grad, grad_enabled, optimizer,
                 loopVars, evalVars>>

PredictEnter ==
  /\ pc = "predict_enter"
  /\ grad_enabled' = FALSE
  /\ pc' = "predict_forward"
  /\ UNCHANGED <<dataVars, sizeVars, fsVars, params, grad, training, optimizer,
                 loopVars, evalVars>>

\* the only statement of the with block, shown by the cell's last line
PredictForward ==
  /\ pc = "predict_forward"
  /\ LET t == Forward(params, X_blob_test, grad_enabled, n_updates)
     IN y_logits' = t /\ cell_out' = FirstRows(t.data, 10)
  /\ grad_enabled' = TRUE
  /\ pc' = "probs13"
  /\ UNCHANGED <<dataVars, sizeVars, fsVars, params, grad, training, optimizer,
                 epochs, epoch, y_pred, loss, test_logits, test_pred, test_loss, out,
                 step_grad, n_updates, y_pred_probs, y_preds, plots, tm_acc, sk_acc>>

FinalProbs ==
  /\ pc = "probs13"
  /\ y_pred_probs' = PredProbs(y_logits)
  /\ pc' = "preds13"
  /\ UNCHANGED <<dataVars, sizeVars, fsVars, modelVars, loopVars,
                 y_preds, cell_out, plots, tm_acc, sk_acc>>

\* y_preds = y_pred_probs.argmax(dim=1)
ProbLabels(probs) == Argmax(probs, 1)

FinalPreds ==
  /\ pc = "preds13"
  /\ y_preds' = ProbLabels(y_pred_probs)
  /\ pc' = "print13"
  /\ UNCHANGED <<dataVars, sizeVars, fsVars, modelVars, loopVars,
                 y_pred_probs, cell_out, plots, tm_acc, sk_acc>>

PrintPreds ==
  /\ pc = "print13"
  /\ cell_out' = <<FirstRows(y_preds, 10), FirstRows(y_blob_test.data, 10)>>
  /\ pc' = "plot_train"
  /\ UNCHANGED <<dataVars, sizeVars, fsVars, modelVars, loopVars,
                 y_pred_probs, y_preds, plots, tm_acc, sk_acc>>

\* helper_functions.plot_decision_boundary(model, X, y): draws, writes nothing
plot_decision_boundary(title, ps, X, y) == [title |-> title, samples |-> Len(X.data)]

PlotTrain ==
  /\ pc = "plot_train"
  /\ IF NUM_FEATURES = 2
     THEN plots' = Append(plots,
                     plot_decision_boundary("Train", params, X_blob_train, y_blob_train))
          /\ pc' = "plot_test"
     ELSE UNCHANGED plots /\ pc' = "accuracy_tm"
  /\ UNCHANGED <<dataVars, sizeVars, fsVars, modelVars, loopVars,
                 y_pred_probs, y_preds, cell_out, tm_acc, sk_acc>>

PlotTest ==
  /\ pc = "plot_test"
  /\ plots' = Append(plots,
                 plot_decision_boundary("Test", params, X_blob_test, y_blob_test))
  /\ pc' = "accuracy_tm"
  /\ UNCHANGED <<dataVars, sizeVars, fsVars, modelVars, loopVars,
                 y_pred_probs, y_preds, cell_out, tm_acc, sk_acc>>

\* a count that takes a label below the other for a match
MutMatches(a, b) == <<Cardinality({i \in DOMAIN a : a[i] <= b[i]}), Len(a)>>
\* the matches and the total, the accuracy being their quotient
Matches(a, b) == <<Cardinality({i \in DOMAIN a : a[i] = b[i]}), Len(a)>>

\* sklearn.metrics.accuracy_score(y_true, y_pred)
accuracy_score(y_true, y_predicted) == Matches(y_true, y_predicted)

\* the metric object called on (preds, target)
torchmetrics_accuracy(preds, target) == Matches(preds, target)

\* Accuracy() takes no task argument: the torchmetrics releases that made
\* the argument mandatory raise here, the earlier ones build the metric
TorchmetricsAccuracy ==
  /\ pc = "accuracy_tm"
  /\ \E legacy_api \in BOOLEAN :
       IF legacy_api
       THEN tm_acc' = torchmetrics_accuracy(y_preds, y_blob_test.data) /\ pc' = "accuracy_sk"
       ELSE UNCHANGED tm_acc /\ pc' = "failed"
  /\ UNCHANGED <<dataVars, sizeVars, fsVars, modelVars, loopVars,
                 y_pred_probs, y_preds, cell_out, plots, sk_acc>>

SklearnAccuracy ==
  /\ pc = "accuracy_sk"
  /\ sk_acc' = accuracy_score(y_preds, y_blob_test.data)
  /\ pc' = "done"
  /\ UNCHANGED <<dataVars, sizeVars, fsVars, modelVars, loopVars,
                 y_pred_probs, y_preds, cell_out, plots, tm_acc>>

(***************************************************************************)
(* The notebook run from its first cell to its last.                       *)
(***************************************************************************)
Init ==
  /\ pc = "make_blobs"
  /\ num_samples = PipelineSamples
  /\ rng \in PipelineOutcomes(num_samples)
  /\ DataDefaults
  /\ helper_file \in {Absent, LocalFile}
  /\ RestDefaults

TrainStep ==
  \/ ForEpoch \/ TrainMode \/ ForwardTrain \/ PredTrain \/ TrainLoss
  \/ ZeroGrad \/ Backward \/ OptimizerStep

TestStep ==
  \/ IfReport \/ EvalMode \/ EnterInference \/ TestForward \/ TestPred
  \/ TestLoss \/ PrintLosses

Next ==
  \/ NextData
  \/ Download \/ ImportHelper \/ BuildModel \/ MakeOptimizer
  \/ ShowForward \/ ShowShape \/ FirstLogits \/ FirstProbs \/ SumFirst \/ ArgmaxFirst
  \/ FitSetup \/ TrainStep \/ TestStep
  \/ PredictEval \/ PredictEnter \/ PredictForward
  \/ FinalProbs \/ FinalPreds \/ PrintPreds
  \/ PlotTrain \/ PlotTest \/ TorchmetricsAccuracy \/ SklearnAccuracy

Spec == Init /\ [][Next]_vars

(***************************************************************************)
(* The statements that turn logits into probabilities and labels, run on   *)
(* logit tensors of two samples: rows with at most two entries above 0,    *)
(* which covers ties of the maximum in every pair of positions, and rows   *)
(* whose entries lie further apart than the precision.                     *)
(***************************************************************************)
ZeroRow == [k \in 1..NUM_CLASSES |-> 0]
LogitRows ==
  {[[ZeroRow EXCEPT ![i] = a] EXCEPT ![j] = b] :
     i \in 1..NUM_CLASSES, j \in 1..NUM_CLASSES, a \in 0..LogitSpread, b \in 1..LogitSpread}
  \cup {[[ZeroRow EXCEPT ![i] = -1] EXCEPT ![j] = Tiny] :
          i \in 1..NUM_CLASSES, j \in 1..NUM_CLASSES}
SecondRows ==
  {ZeroRow, [ZeroRow EXCEPT ![NUM_CLASSES] = FRAC_BITS + LogitSpread],
   [k \in 1..NUM_CLASSES |-> IF k < 3 THEN -k ELSE -1]}
\* the logits of a model whose parameters are no numbers
NanRow == [k \in 1..NUM_CLASSES |-> NaN]
LogitTensors ==
  {[dtype |-> "float32", data |-> <<r1, r2>>, requires_grad |-> g, updates |-> 0] :
     r1 \in LogitRows, r2 \in SecondRows, g \in BOOLEAN}
  \cup {[dtype |-> "float32", data |-> <<NanRow, NanRow>>, requires_grad |-> g, updates |-> 0] :
          g \in BOOLEAN}

InitEval ==
  /\ pc \in {"probs8", "probs13", "y_pred", "test_pred"}
  /\ num_samples = PipelineSamples
  /\ rng \in PipelineOutcomes(num_samples)
  /\ DataDefaults
  /\ helper_file = LocalFile
  /\ downloads = 0
  /\ params = <<>> /\ grad = NoGrad
  /\ training = (pc \in {"probs8", "y_pred"})
  /\ grad_enabled = (pc # "test_pred")
  /\ optimizer = NoOptimizer
  /\ epochs = 0 /\ epoch = -1
  /\ \E t \in LogitTensors :
       /\ t.requires_grad = (pc \in {"probs8", "y_pred"})
       /\ pc = "probs8" => t.data[1] # NanRow
       /\ y_logits = IF pc = "test_pred" THEN None ELSE t
       /\ test_logits = IF pc = "test_pred" THEN t ELSE None
  /\ y_pred = <<>> /\ loss = NoLoss
  /\ test_pred = <<>> /\ test_loss = NoLoss
  /\ out = <<>> /\ step_grad = NoGrad /\ n_updates = 0
  /\ y_pred_probs = None /\ y_preds = <<>>
  /\ cell_out = <<>> /\ plots = <<>>
  /\ tm_acc = <<>> /\ sk_acc = <<>>

NextEval ==
  \/ FirstProbs \/ SumFirst \/ ArgmaxFirst
  \/ PredTrain \/ TestPred
  \/ FinalProbs \/ FinalPreds

SpecEval == InitEval /\ [][NextEval]_vars

(***************************************************************************)
(* The helper cell alone, on any file and any response, run again and      *)
(* again once it has completed.                                            *)
(***************************************************************************)
InitSetup ==
  /\ pc = "download"
  /\ num_samples = PipelineSamples
  /\ rng = [feat |-> <<>>, order |-> <<>>, split |-> <<>>]
  /\ DataDefaults
  /\ helper_file \in {Absent} \cup {[is_file |-> TRUE, content |-> c] : c \in Contents}
  /\ RestDefaults

SetupDownload == \E served \in Contents : DownloadHelper(served)

\* the cell run once more after it has completed
RerunSetup ==
  /\ pc = "build_model"
  /\ pc' = "download"
  /\ UNCHANGED <<dataVars, sizeVars, restVars>>

NextSetup == SetupDownload \/ ImportHelper \/ RerunSetup

SpecSetup == InitSetup /\ [][NextSetup]_vars

(***************************************************************************)
(* The accuracy cell alone, on any predicted and any held-out labels.      *)
(***************************************************************************)
LabelSample == {0, 1, NUM_CLASSES - 1}
LabelSeqs == UNION {[1..n -> LabelSample] : n \in 1..MaxTest}

InitAccuracy ==
  /\ pc = "accuracy_tm"
  /\ num_samples = PipelineSamples
  /\ rng = [feat |-> <<>>, order |-> <<>>, split |-> <<>>]
  /\ X_blob = None /\ y_blob = None
  /\ X_blob_train = None /\ X_blob_test = None
  /\ y_blob_train = None
  /\ \E labels \in LabelSeqs :
       /\ y_blob_test = [dtype |-> "long", data |-> labels]
       /\ y_preds \in {p \in LabelSeqs : Len(p) = Len(labels)}
  /\ train_idx = <<>> /\ test_idx = <<>>
  /\ n_train = 0 /\ n_test = 0
  /\ helper_file = LocalFile
  /\ downloads = 0
  /\ params = <<>> /\ grad = NoGrad
  /\ training = FALSE /\ grad_enabled = TRUE
  /\ optimizer = NoOptimizer
  /\ epochs = 0 /\ epoch = -1
  /\ y_logits = None /\ y_pred = <<>> /\ loss = NoLoss
  /\ test_logits = None /\ test_pred = <<>> /\ test_loss = NoLoss
  /\ out = <<>> /\ step_grad = NoGrad /\ n_updates = 0
  /\ y_pred_probs = None
  /\ cell_out = <<>> /\ plots = <<>>
  /\ tm_acc = <<>> /\ sk_acc = <<>>

NextAccuracy == TorchmetricsAccuracy \/ SklearnAccuracy

SpecAccuracy == InitAccuracy /\ [][NextAccuracy]_vars

(***************************************************************************)
(* The forward pass of a training step alone, on batches x, y, x + y, 0    *)
(* and on the parameters training can have made.                           *)
(***************************************************************************)
Inputs == {<<a, b>> : a, b \in (-InputSpan)..InputSpan}
Batch(x, y) == <<x, y, <<x[1] + y[1], x[2] + y[2]>>, <<0, 0>>>>

\* the parameters after steps that moved every entry by k in all
Moved(ps, k) == LET F(x, l, o, i) == FAdd(x, k) IN MapParams(ps, F)
ParamSamples ==
  {Moved(InitParams(d), k) : d \in InitDraws, k \in (-ParamCap)..ParamCap}
  \cup {Moved(InitParams(1), NaN)}

InitForward ==
  /\ pc = "forward"
  /\ num_samples = PipelineSamples
  /\ rng = [feat |-> <<>>, order |-> <<>>, split |-> <<>>]
  /\ X_blob = None /\ y_blob = None
  /\ \E x \in Inputs, y \in Inputs :
       X_blob_train = [dtype |-> "float32", data |-> Batch(x, y)]
  /\ y_blob_train = [dtype |-> "long", data |-> <<0, 1, 2, NUM_CLASSES - 1>>]
  /\ X_blob_test = None /\ y_blob_test = None
  /\ train_idx = <<>> /\ test_idx = <<>>
  /\ n_train = 0 /\ n_test = 0
  /\ helper_file = LocalFile
  /\ downloads = 0
  /\ params \in ParamSamples
  /\ grad = NoGrad
  /\ training = TRUE /\ grad_enabled = TRUE
  /\ optimizer = NoOptimizer
  /\ epochs = NUM_EPOCHS /\ epoch = 0
  /\ y_logits = None /\ y_pred = <<>> /\ loss = NoLoss
  /\ test_logits = None /\ test_pred = <<>> /\ test_loss = NoLoss
  /\ out = <<>> /\ step_grad = NoGrad /\ n_updates = 0
  /\ y_pred_probs = None /\ y_preds = <<>>
  /\ cell_out = <<>> /\ plots = <<>>
  /\ tm_acc = <<>> /\ sk_acc = <<>>

NextForward == ForwardTrain \/ PredTrain

SpecForward == InitForward /\ [][NextForward]_vars

(***************************************************************************)
(* The sizes of the split alone, for sample counts up to NUM_SAMPLES.      *)
(***************************************************************************)
InitSizes ==
  /\ pc = "split"
  /\ num_samples \in (2..MaxCount) \cup {NUM_SAMPLES}
  /\ rng = [feat |-> <<>>, order |-> <<>>, split |-> <<>>]
  /\ DataDefaults
  /\ helper_file = Absent
  /\ RestDefaults

SplitSizes ==
  /\ pc = "split"
  /\ n_test' = NTest(num_samples)
  /\ n_train' = NTrain(num_samples)
  /\ pc' = "plot_data"
  /\ UNCHANGED <<dataVars, restVars>>

SpecSizes == InitSizes /\ [][SplitSizes]_vars

(***************************************************************************)
(* Properties of the data cell.                                            *)
(***************************************************************************)
SplitDone == X_blob_train # None

Pairs(X, y) == [i \in DOMAIN X.data |-> <<X.data[i], y.data[i]>>]
Count(s, v) == Cardinality({i \in DOMAIN s : s[i] = v})
SameBag(s, t) == \A v \in Range(s) \cup Range(t) : Count(s, v) = Count(t, v)

\* C1: after the split the train and the test subset hold disjoint sets of
\* samples, every sample of (X_blob, y_blob) is in exactly one of them (none
\* lost, none twice), and every feature vector of a subset sits beside the
\* label it had in (X_blob, y_blob).
C1_SplitPartitions ==
  SplitDone =>
    LET n == Len(X_blob.data)
    IN /\ Range(train_idx) \cap Range(test_idx) = {}
       /\ Range(train_idx) \cup Range(test_idx) = 1..n
       /\ Len(train_idx) + Len(test_idx) = n
       /\ Len(X_blob_train.data) = Len(train_idx)
       /\ Len(y_blob_train.data) = Len(train_idx)
       /\ Len(X_blob_test.data) = Len(test_idx)
       /\ Len(y_blob_test.data) = Len(test_idx)
       /\ \A i \in DOMAIN train_idx :
            /\ X_blob_train.data[i] = X_blob.data[train_idx[i]]
            /\ y_blob_train.data[i] = y_blob.data[train_idx[i]]
       /\ \A i \in DOMAIN test_idx :
            /\ X_blob_test.data[i] = X_blob.data[test_idx[i]]
            /\ y_blob_test.data[i] = y_blob.data[test_idx[i]]
       /\ SameBag(Pairs(X_blob_train, y_blob_train) \o Pairs(X_blob_test, y_blob_test),
                  Pairs(X_blob, y_blob))

\* a split of three samples with different features in the train subset
C1_Witness ==
  /\ SplitDone
  /\ Len(test_idx) = 1 /\ Len(train_idx) = 2
  /\ X_blob_train.data[1] # X_blob_train.data[2]
  /\ train_idx[1] > train_idx[2]

\* C2: with NUM_SAMPLES = 4000 samples and test_size = 0.2 the split computes
\* 3200 train and 800 test samples: the two sizes add up to the sample count
\* and the test size is the fraction 0.2 of it.
C2_SplitSizes ==
  (pc = "plot_data" /\ num_samples = NUM_SAMPLES) =>
    /\ n_train = 3200
    /\ n_test = 800
    /\ n_train + n_test = num_samples
    /\ n_test * TEST_DEN = TEST_NUM * num_samples

C2_Witness == pc = "plot_data" /\ num_samples = NUM_SAMPLES /\ n_test = 800

Labels == 0..(NUM_CLASSES - 1)

\* C3: make_blobs returns as many labels as feature vectors, num_samples of
\* each, every label an integer l with 0 <= l < NUM_CLASSES, and the same holds
\* of the labels after the conversion to tensors and in both subsets of the
\* split.
C3_LabelsInRange ==
  /\ y_blob # None =>
       /\ Len(y_blob.data) = num_samples
       /\ Len(X_blob.data) = num_samples
       /\ \A i \in DOMAIN y_blob.data : y_blob.data[i] \in Labels
  /\ SplitDone =>
       /\ y_blob.dtype = "long"
       /\ \A i \in DOMAIN y_blob_train.data : y_blob_train.data[i] \in Labels
       /\ \A i \in DOMAIN y_blob_test.data : y_blob_test.data[i] \in Labels

\* a split whose subsets hold the smallest and the largest label
C3_Witness ==
  /\ SplitDone
  /\ \E i \in DOMAIN y_blob_train.data : y_blob_train.data[i] = NUM_CLASSES - 1
  /\ \E i \in DOMAIN y_blob_test.data : y_blob_test.data[i] = 0

(***************************************************************************)
(* Properties of the training and testing loop.                            *)
(***************************************************************************)
BeforeStep == {"train_mode", "forward", "y_pred", "loss", "zero_grad", "backward", "opt_step"}
TestBlock == {"eval_mode", "enter_inference", "test_forward", "test_pred", "test_loss", "print"}
AfterStep == {"if_report"} \cup TestBlock
AfterLoop ==
  {"predict_eval", "predict_enter", "predict_forward", "probs13", "preds13", "print13",
   "plot_train", "plot_test", "accuracy_tm", "accuracy_sk", "done"}

\* the entries of the parameters: bias o of layer l is <<l, o, 0>>
ParamIndex(ps) ==
  UNION {{<<l, o, i>> : o \in DOMAIN ps[l].bias, i \in 0..Len(ps[l].weight[1])} :
           l \in DOMAIN ps}

C4_Counts ==
  /\ pc \in BeforeStep => epoch \in 0..(NUM_EPOCHS - 1) /\ n_updates = epoch
  /\ pc \in AfterStep => epoch \in 0..(NUM_EPOCHS - 1) /\ n_updates = epoch + 1
  /\ pc = "for" => epoch \in -1..(NUM_EPOCHS - 1) /\ n_updates = epoch + 1
  /\ pc \in AfterLoop => epoch = NUM_EPOCHS - 1 /\ n_updates = NUM_EPOCHS

C4_Steps ==
  /\ epoch' # epoch => epoch' = epoch + 1 /\ pc = "for"
  /\ n_updates' # n_updates => n_updates' = n_updates + 1 /\ pc = "opt_step"
  /\ pc \in BeforeStep \cup AfterStep => epoch' = epoch

Completed ==
  IF pc \in AfterLoop THEN NUM_EPOCHS
  ELSE IF pc \in BeforeStep \cup AfterStep THEN epoch
  ELSE epoch + 1

C6_TogglesEveryEpoch == (pc = "for" /\ epoch >= 0) => ~training

\* C6 as amended: model_4.train() runs at the start of every epoch, so the
\* training step always runs in training mode; model_4.eval() runs after the
\* step only in the epochs e with e % 100 = 0, and an epoch ends in evaluating
\* mode if and only if it is one of these.
C6_EvalOnlyWhenReporting ==
  /\ pc \in (BeforeStep \ {"train_mode"}) \cup {"if_report", "eval_mode"} => training
  /\ pc \in TestBlock \ {"eval_mode"} => ~training
  /\ (pc = "for" /\ epoch >= 0) => (training <=> epoch % 100 # 0)

C6_Witness == pc = "for" /\ epoch = 101 /\ training /\ Len(out) = 2

\* C7: only optimizer.step() writes the parameters the model was built with:
\* whenever params changes, the statement that ran is optimizer.step() (or
\* the construction of the model).
C7_OnlyStepWritesParams ==
  [][params' # params => pc \in {"build_model", "opt_step"}]_vars

C7_Witness == pc = "done" /\ Len(plots) = 2 /\ Len(out) >= 2

C8_Order ==
  /\ pc \in {"y_pred", "loss"} =>
       /\ y_logits.updates = n_updates
       /\ y_logits.requires_grad
       /\ y_logits.data = Forward(params, X_blob_train, TRUE, n_updates).data
  /\ pc \in {"zero_grad", "backward", "opt_step"} =>
       /\ loss.on = "train" /\ loss.updates = n_updates
       /\ loss.samples = Len(X_blob_train.data) /\ loss.paired
  /\ pc \in BeforeStep \cup AfterStep \cup {"for"} =>
       optimizer.lr_num * 20 = optimizer.lr_den

C8_Update ==
  pc = "opt_step" =>
    \A x \in ParamIndex(params) :
      LET p == Entry(params, x[1], x[2], x[3])
          q == Entry(params', x[1], x[2], x[3])
          g == Entry(step_grad, x[1], x[2], x[3])
      IN IF p = NaN \/ g = NaN THEN q = NaN
         ELSE q # NaN /\ LR_DEN * (p - q) = LR_NUM * g

One == 2 ^ FRAC_BITS

\* l is the index (from 0) of the first maximal entry of p
FirstMax(p, l) ==
  /\ l \in 0..(NUM_CLASSES - 1)
  /\ \A k \in DOMAIN p : p[k] <= p[l + 1]
  /\ \A k \in 1..l : p[k] < p[l + 1]

LabelsOf(labels, probs) ==
  /\ Len(labels) = Len(probs)
  /\ \A i \in DOMAIN probs : FirstMax(probs[i], labels[i])

\* C9: every predicted label (y_preds of the prediction cell, y_pred and
\* test_pred of the loop) is, for its sample, the index of the largest entry of
\* the sample's probability vector, an index in 0..NUM_CLASSES-1, and the
\* lowest such index when several entries are the largest.
C9_LabelIsFirstMax ==
  /\ y_preds # <<>> => LabelsOf(y_preds, y_pred_probs.data)
  /\ y_pred # <<>> =>
       LabelsOf(y_pred, [i \in DOMAIN y_logits.data |-> SoftmaxVec(y_logits.data[i])])
  /\ test_pred # <<>> =>
       LabelsOf(test_pred, [i \in DOMAIN test_logits.data |-> SoftmaxVec(test_logits.data[i])])

\* labels of a sample whose largest probability occurs twice, the first
\* occurrence not in column 0
C9_Witness ==
  /\ y_preds # <<>>
  /\ y_preds[1] = 3
  /\ y_pred_probs.data[1][7] = y_pred_probs.data[1][4]
  /\ y_preds[2] = NUM_CLASSES - 1

SumsToOne(p) ==
  LET d == SumFrom(p, 1) - One
  IN (IF d < 0 THEN -d ELSE d) <= One \div 100000

\* the rows are as many as the rows of logits, K entries each; every entry of
\* a row is between 0 and 1 and the row sums to 1 within 1e-5
ProbRows(probs, logits) ==
  /\ Len(probs) = Len(logits)
  /\ \A i \in DOMAIN probs :
       /\ Len(probs[i]) = NUM_CLASSES
       /\ \A k \in DOMAIN probs[i] : probs[i][k] # NaN /\ probs[i][k] >= 0 /\ probs[i][k] <= One
       /\ SumsToOne(probs[i])

Finite(t) == \A i \in DOMAIN t.data : NaN \notin Range(t.data[i])

\* C10 as claimed: every row of y_pred_probs (the softmax of the logits
\* across the classes) has all its entries between 0 and 1 and sums to 1
\* within 1e-5, and so does the sum the notebook displays for the first
\* sample.
C10_SoftmaxRows ==
  /\ y_pred_probs # None => ProbRows(y_pred_probs.data, y_logits.data)
  /\ pc = "argmax10" => SumsToOne(<<cell_out>>)

\* C10, what the code does: the rows are such whenever the logits are all
\* numbers.
C10_FiniteSoftmaxRows ==
  /\ (y_pred_probs # None /\ Finite(y_logits)) => ProbRows(y_pred_probs.data, y_logits.data)
  /\ pc = "argmax10" => SumsToOne(<<cell_out>>)

\* a row that rounding keeps from summing to 1 exactly, beside a row with
\* entries rounded to 0
C10_Witness ==
  /\ y_pred_probs # None
  /\ SumFrom(y_pred_probs.data[1], 1) # One
  /\ \E k \in 1..NUM_CLASSES : y_pred_probs.data[2][k] = 0

(***************************************************************************)
(* Properties of the model's shape and of the helper cell.                 *)
(***************************************************************************)
Shape(ps) ==
  [l \in DOMAIN ps |-> [in |-> Len(ps[l].weight[1]), out |-> Len(ps[l].weight),
                        bias |-> Len(ps[l].bias)]]

WellFormed(ps) ==
  /\ \A l \in DOMAIN ps : \A o \in DOMAIN ps[l].weight :
       Len(ps[l].weight[o]) = Len(ps[l].weight[1])
  /\ \A l \in 2..Len(ps) : Shape(ps)[l].in = Shape(ps)[l - 1].out

\* C11 as claimed: five layers 2->8, 8->8, 8->8, 8->8, 8->K.
C11_EightHiddenUnits ==
  params # <<>> =>
    Shape(params) = <<[in |-> 2, out |-> 8, bias |-> 8], [in |-> 8, out |-> 8, bias |-> 8],
                      [in |-> 8, out |-> 8, bias |-> 8], [in |-> 8, out |-> 8, bias |-> 8],
                      [in |-> 8, out |-> NUM_CLASSES, bias |-> NUM_CLASSES]>>

\* C11 as amended: from its construction to the end of the run model_4 is a
\* stack of exactly five affine layers 2->4, 4->4, 4->4, 4->4, 4->K (4 hidden
\* units, the value of NUM_NODES), each layer as wide at its input as the
\* layer before it at its output, and every row of logits has K entries.
C11_FourHiddenUnits ==
  /\ params # <<>> =>
       /\ Shape(params) =
            <<[in |-> 2, out |-> 4, bias |-> 4], [in |-> 4, out |-> 4, bias |-> 4],
              [in |-> 4, out |-> 4, bias |-> 4], [in |-> 4, out |-> 4, bias |-> 4],
              [in |-> 4, out |-> NUM_CLASSES, bias |-> NUM_CLASSES]>>
       /\ WellFormed(params)
  /\ y_logits # None => \A i \in DOMAIN y_logits.data : Len(y_logits.data[i]) = NUM_CLASSES

C11_Witness == pc = "if_report" /\ n_updates = NUM_EPOCHS /\ Len(params) = 5

\* C12: when helper_functions.py is on disk the cell makes no request and
\* leaves the file as it is; when it is not, the cell makes one request and,
\* unless the request raises, writes the file; the file is there whenever the
\* cell has got past the download; and however often the cell is run again
\* after that, no further request is made: at most one request in all.
C12_Step ==
  /\ (pc = "download" /\ helper_file.is_file) =>
        helper_file' = helper_file /\ downloads' = downloads /\ pc' = "import_helper"
  /\ (pc = "download" /\ ~helper_file.is_file) =>
        /\ downloads' = downloads + 1
        /\ pc' = "import_helper" => helper_file'.is_file
        /\ pc' # "import_helper" => pc' = "failed" /\ helper_file' = helper_file
  /\ pc # "download" => helper_file' = helper_file /\ downloads' = downloads

C12_DownloadedOnce ==
  /\ [](pc \in {"import_helper", "build_model"} => helper_file.is_file)
  /\ [](downloads <= 1)
  /\ [][C12_Step]_vars

\* the cell about to run a second time, after a run that downloaded
C12_Witness == pc = "download" /\ helper_file.is_file /\ downloads = 1

(***************************************************************************)
(* Properties of the accuracy.                                             *)
(***************************************************************************)
\* the test samples whose predicted label is the held-out label
Hits == {i \in DOMAIN y_preds : y_preds[i] = y_blob_test.data[i]}

ProgramOrder ==
  <<"make_blobs", "to_tensors", "split", "plot_data", "download", "import_helper",
    "build_model", "make_optimizer", "forward6", "shape7", "logits8", "probs8", "sum9",
    "argmax10", "fit", "train_mode", "forward", "y_pred", "loss", "zero_grad", "backward",
    "opt_step", "if_report", "eval_mode", "enter_inference", "test_forward", "test_pred",
    "test_loss", "print", "for", "predict_eval", "predict_enter", "predict_forward",
    "probs13", "preds13", "print13", "plot_train", "plot_test", "accuracy_tm",
    "accuracy_sk", "done", "failed">>

Pos(p) == CHOOSE i \in DOMAIN ProgramOrder : ProgramOrder[i] = p

\* the train loss of the current or the last step has been computed
LossSet == pc \in {"zero_grad", "backward", "opt_step"} \/ n_updates > 0

\* C14 as claimed, for the numeric failure: a loss that is no number ends the
\* run, so that nothing but a failed run ever holds one.
C14_NanLossStopsRun == (LossSet /\ pc # "failed") => loss.finite

C14_Step ==
  /\ pc # "failed"
  /\ pc' = "failed" =>
       /\ pc \in {"download", "import_helper", "backward", "accuracy_tm"}
       /\ <<params, grad, out, plots, tm_acc, sk_acc, n_updates, epoch, helper_file>>'
            = <<params, grad, out, plots, tm_acc, sk_acc, n_updates, epoch, helper_file>>
  /\ Pos(pc') > Pos(pc) \/ (pc = "for" /\ pc' = "train_mode" /\ epoch' = epoch + 1)
  /\ (LossSet /\ ~loss.finite /\ pc \in BeforeStep \cup AfterStep \cup {"for"}) =>
       pc' # "failed"

\* C14, what the code does: no failure is handled or retried.  A statement
\* that raises (the download, the import, the construction of the metric)
\* ends the run: it assigns nothing, no statement runs after it, and no
\* statement is run again other than by the loop going on to its next epoch.
\* A numeric failure raises nothing: with a loss that is no number the loop
\* goes on, makes all its NUM_EPOCHS steps and the later cells run.
C14_OnlyRaisedErrorsStopRun ==
  /\ [][C14_Step]_vars
  /\ [](pc \in AfterLoop => n_updates = NUM_EPOCHS)
  /\ [](downloads <= 1)

\* a run that trained to the end on a loss that is no number, printed it, and
\* then stopped where the metric is constructed
C14_Witness ==
  /\ pc = "failed" /\ n_updates = NUM_EPOCHS /\ Len(plots) = 2
  /\ ~loss.finite /\ out[1].loss.finite /\ ~out[2].loss.finite

(***************************************************************************)
(* Properties of the order of the cells.                                   *)
(***************************************************************************)
\* C15: the data are split only after they are generated and converted; no
\* optimizer step is made before model_4 and the optimizer exist; the final
\* logits, the labels predicted from them, the two plots and the two
\* accuracies exist only once all NUM_EPOCHS steps are made; the final logits
\* are those of the parameters of the last step, computed in evaluating mode
\* without gradient tracking; and the model stays in evaluating mode for the
\* plots and the accuracy.
C15_StagesInOrder ==
  /\ train_idx # <<>> => X_blob # None /\ X_blob.dtype = "float32" /\ y_blob.dtype = "long"
  /\ X_blob_train # None => train_idx # <<>>
  /\ (n_updates > 0 \/ pc = "opt_step") => params # <<>> /\ DOMAIN optimizer # {}
  /\ params # <<>> => X_blob_train # None
  /\ (y_preds # <<>> \/ plots # <<>> \/ tm_acc # <<>> \/ sk_acc # <<>>) =>
       n_updates = NUM_EPOCHS
  /\ pc \in AfterLoop \ {"predict_eval", "predict_enter", "predict_forward"} =>
       /\ y_logits.updates = NUM_EPOCHS
       /\ ~y_logits.requires_grad
       /\ ~training
  /\ pc \in {"predict_enter", "predict_forward"} => ~training
  /\ pc = "predict_forward" => ~grad_enabled
  /\ plots # <<>> => y_preds # <<>>
  /\ tm_acc # <<>> => Len(plots) = 2
  /\ sk_acc # <<>> => tm_acc # <<>>

C15_Witness ==
  pc = "done" /\ n_updates = NUM_EPOCHS /\ Len(plots) = 2 /\ ~training /\ sk_acc # <<>>

(***************************************************************************)
(* Properties of the forward pass.                                         *)
(***************************************************************************)
\* (the concatenations with <<>> leave the values as they are)
VecAdd(u, v) == [i \in DOMAIN u |-> FAdd(u[i], v[i])] \o <<>>
MatVec(W, v) == [o \in DOMAIN W |-> DotFrom(W[o], v, 1)] \o <<>>
Column(W, j) == [o \in DOMAIN W |-> W[o][j]] \o <<>>
\* the matrix of v |-> A (B v)
MatMat(A, B) ==
  [o \in DOMAIN A |->
    [j \in DOMAIN B[1] |-> DotFrom(A[o], Column(B, j), 1)] \o <<>>] \o <<>>

\* the one weight matrix and the one bias of layers l..Len(ps) applied in turn
RECURSIVE OneWeight(_, _)
OneWeight(ps, l) ==
  IF l = Len(ps) THEN ps[l].weight ELSE MatMat(OneWeight(ps, l + 1), ps[l].weight)
RECURSIVE OneBias(_, _)
OneBias(ps, l) ==
  IF l = Len(ps) THEN ps[l].bias
  ELSE VecAdd(MatVec(OneWeight(ps, l + 1), ps[l].bias), OneBias(ps, l + 1))

Skippable(labels, logits) ==
  labels # <<>> => \A i \in DOMAIN labels : labels[i] = ArgmaxVec(logits.data[i])

\* every entry is the largest one or differs from it by a difference that
\* its float32 exp shows
Separated(row) ==
  LET m == MaxFrom(row, 1)
  IN \A k \in DOMAIN row : row[k] = m \/ Rounded(row[k]) # Rounded(m)

SkippableIfSeparated(labels, logits) ==
  labels # <<>> =>
    \A i \in DOMAIN labels :
      Separated(logits.data[i]) => labels[i] = ArgmaxVec(logits.data[i])

TrainLossOf(ps, n) ==
  CrossEntropyLoss(Forward(ps, X_blob_train, TRUE, n), y_blob_train, "train")

C19_Sources ==
  /\ pc \in {"y_pred", "loss"} => y_logits = Forward(params, X_blob_train, TRUE, n_updates)
  /\ pc \in {"zero_grad", "backward", "opt_step"} => loss = TrainLossOf(params, n_updates)
  /\ pc = "backward" => grad = NoGrad
  /\ pc = "opt_step" => \E g \in Gradients(TrainLossOf(params, n_updates)) :
                          grad = GradFill(params, g)
  /\ loss # NoLoss => loss.on = "train"
  /\ test_logits # None => ~test_logits.requires_grad
  /\ test_loss # NoLoss => test_loss.on = "test" /\ ~test_loss.requires_grad

C19_Writes ==
  /\ params' # params =>
       \/ pc = "build_model"
       \/ pc = "opt_step" /\ params' = SgdStep(params, grad, optimizer)
  /\ grad' # grad => pc \in {"zero_grad", "backward"}
  /\ optimizer' # optimizer => pc = "make_optimizer"

\* C19: the test set never reaches the parameters.  The logits and the loss
\* of every training step are those of the train features and train labels
\* under the current parameters, the gradient buffers hold, when the step is
\* made, what autograd returned for that loss and nothing else, the
\* parameters change only by the optimizer's step from these buffers, and no
\* tensor computed from the test features ever tracks gradients.  Every
\* operand of a step being computed from the parameters and the train set
\* alone, two runs that differ in their test sets only make the same steps.
C19_TestSetNeverFeedsStep == []C19_Sources /\ [][C19_Writes]_vars

\* a step about to be made after a pass over the test set
C19_Witness ==
  /\ pc = "opt_step" /\ epoch = 1
  /\ test_logits # None /\ test_logits.updates = 1
  /\ test_loss # NoLoss
  /\ X_blob_test.data # X_blob_train.data

====
